---- MODULE Spec2Model ----
(***************************************************************************)
(* Model of unique-ip-counter: the IPv4 parser and the lock-free two-level *)
(* bitmap of internal/ipv4_bitset, and the shard planner, shard scanner    *)
(* and parallel driver of internal/file_processor.                         *)
(*                                                                         *)
(* Representation choices                                                  *)
(*  - a byte is its integer code 0..255; byte arithmetic wraps mod 256;    *)
(*  - a uint32 address is the record [hi, lo] of its two 16-bit halves     *)
(*    (hi = u32 >> 16, lo = u32 & 0xFFFF), every operation on it being     *)
(*    computed modulo 2^16 per half, i.e. modulo 2^32 as a whole;          *)
(*  - a uint64 bitmap word is the set of the positions 0..63 of its 1      *)
(*    bits: w & mask # 0 is membership, w | mask is union, and two words   *)
(*    are equal exactly when the sets are;                                 *)
(*  - a file is a sequence of runs <<byte, count>>, so that lines longer   *)
(*    than the 64 KiB and 2 MiB buffers are ordinary inputs.               *)
(***************************************************************************)
EXTENDS Integers, Sequences, FiniteSets, TLC

VARIABLES
    sb,         \* parser specification: the byte slice given to the parser
    gen,        \* parser specification: how sb was produced (quad or raw)
    parsed,     \* parser specification: the parser's result, or NoResult
    shards,     \* Bitset.shards: hi -> reference of the installed leaf (sparse)
    heap,       \* the allocated shard16 values: reference -> bits (sparse words)
    unique,     \* Bitset.unique
    th,         \* the goroutines: program position and locals of each
    rets,       \* history: address -> number of true / false returns of SetIfNew
    file,       \* fp.file: the content of the input file, a sequence of runs
    nth,        \* fp.th: the worker count
    plan,       \* the result of splitToShards, or NoResult
    ctxDone,    \* the context given to ProcessFile is cancelled
    group,      \* the errgroup of ProcessFile: its context and its first error
    pf,         \* ProcessFile: program position, return value
    progress,   \* Progress.done
    app,        \* App.Run: its two goroutines, the done channel, the output
    retry       \* history: goroutine -> the failed CAS of its SetIfNew call
                \* in progress and the word that its first load returned

pvars == <<sb, gen, parsed>>
bvars == <<shards, heap, unique, th, rets>>
fvars == <<file, nth, plan>>
dvars == <<ctxDone, group, pf, progress>>
avars == <<app>>
hvars == <<retry>>

vars == <<sb, gen, parsed, shards, heap, unique, th, rets, file, nth, plan,
          ctxDone, group, pf, progress, app, retry>>

---------------------------------------------------------------------------
(* Bytes *)

NL  == 10      \* '\n'
CR  == 13      \* '\r'
SP  == 32      \* ' '
DOT == 46      \* '.'
D0  == 48      \* '0'
LA  == 97      \* 'a'

Dg(n) == D0 + n

NoResult == [none |-> TRUE]

---------------------------------------------------------------------------
(* internal/ipv4_bitset: IPv4ByteToUint32 *)

U32Zero == [hi |-> 0, lo |-> 0]

\* a plausible slip: the bits shifted out of the low half are dropped
MutShl8Or(acc, part) ==
    [hi |-> (acc.hi * 256) % 65536,
     lo |-> (acc.lo * 256 + part) % 65536]

\* acc = (acc << 8) | part on a uint32, part <= 255 (so | is +)
Shl8Or(acc, part) ==
    [hi |-> (acc.hi * 256 + (acc.lo \div 256)) % 65536,
     lo |-> (acc.lo * 256 + part) % 65536]

\* a plausible slip: the component bound checked only when a '.' closes it
RECURSIVE MutParseLoop(_, _, _, _, _)
MutParseLoop(s, i, acc, part, dots) ==
    IF i > Len(s)
    THEN IF dots # 3
         THEN [acc |-> U32Zero, ok |-> FALSE]
         ELSE [acc |-> Shl8Or(acc, part % 256), ok |-> TRUE]
    ELSE LET c == s[i]
             d == (c - D0) % 256
         IN  IF d <= 9
             THEN MutParseLoop(s, i + 1, acc, (part * 10 + d) % 65536, dots)
             ELSE IF c = DOT
                  THEN IF dots >= 3 \/ part > 255
                       THEN [acc |-> U32Zero, ok |-> FALSE]
                       ELSE MutParseLoop(s, i + 1, Shl8Or(acc, part), 0, dots + 1)
                  ELSE [acc |-> U32Zero, ok |-> FALSE]

\* the for loop of IPv4ByteToUint32 from index i (1-based) on
RECURSIVE ParseLoop(_, _, _, _, _)
ParseLoop(s, i, acc, part, dots) ==
    IF i > Len(s)
    THEN IF dots # 3
         THEN [acc |-> U32Zero, ok |-> FALSE]
         ELSE [acc |-> Shl8Or(acc, part), ok |-> TRUE]
    ELSE LET c == s[i]
             d == (c - D0) % 256
         IN  IF d <= 9
             THEN IF part * 10 + d > 255
                  THEN [acc |-> U32Zero, ok |-> FALSE]
                  ELSE ParseLoop(s, i + 1, acc, part * 10 + d, dots)
             ELSE IF c = DOT
                  THEN IF dots >= 3
                       THEN [acc |-> U32Zero, ok |-> FALSE]
                       ELSE ParseLoop(s, i + 1, Shl8Or(acc, part), 0, dots + 1)
                  ELSE [acc |-> U32Zero, ok |-> FALSE]

IPv4ByteToUint32(s) ==
    IF Len(s) < 7 \/ Len(s) > 15
    THEN [acc |-> U32Zero, ok |-> FALSE]
    ELSE ParseLoop(s, 1, U32Zero, 0, 0)

---------------------------------------------------------------------------
(* internal/ipv4_bitset: Bitset, getOrCreate, SetIfNew, AddUnique *)

Nil == 0

\* sparse functions: an absent key holds the zero value
Get(f, k, zero) == IF k \in DOMAIN f THEN f[k] ELSE zero
Put(f, k, v)    == [x \in DOMAIN f \cup {k} |-> IF x = k THEN v ELSE f[x]]

\* before ProcessFile is called: live context, no group, nothing reported
InitDriver ==
    /\ ctxDone = FALSE
    /\ group = [done |-> FALSE, err |-> "nil"]
    /\ pf = [pc |-> "start", ret |-> "nil", pre |-> FALSE]
    /\ progress = 0

\* App.Run is not running: the core is driven directly
NoApp == [main |-> "none", go |-> "none", err |-> "nil", ret |-> "nil",
          printed |-> 0, shown |-> 0]

\* New(): every slot nil, no leaf allocated, unique = 0
InitBitset ==
    /\ shards = <<>>
    /\ heap = <<>>
    /\ unique = 0
    /\ rets = <<>>

LoadSlot(hi)     == Get(shards, hi, Nil)
LoadWord(p, idx) == Get(heap[p], idx, {})

\* a plausible slip: lo >> 7, so that two words of a leaf share one word
MutWordIdx(lo) == lo \div 128

WordIdx(lo) == lo \div 64        \* lo >> 6

BitPos(lo)  == lo % 64           \* mask = 1 << (lo & 63)

NoRets == [t |-> 0, f |-> 0]
Trues(x)  == Get(rets, x, NoRets).t
Falses(x) == Get(rets, x, NoRets).f
Record(x, b) ==
    Put(rets, x, IF b THEN [t |-> Trues(x) + 1, f |-> Falses(x)]
                      ELSE [t |-> Trues(x), f |-> Falses(x) + 1])

\* a plausible slip: localUniq++ for every address handed to SetIfNew
MutAfterSetIfNew(g, b) ==
    IF g.role = "caller"
    THEN [g EXCEPT !.pc = "idle", !.u32 = U32Zero,
                   !.n = Nil, !.sh = Nil, !.old = {}]
    ELSE [g EXCEPT !.pc = "loop", !.u32 = U32Zero,
                   !.n = Nil, !.sh = Nil, !.old = {},
                   !.localUniq = @ + 1]

\* the goroutine's state after SetIfNew returned b to its caller: a client
\* of the bitmap is idle again; a scanner executes localUniq++ on true and
\* goes back to the head of its loop (fp.go:174-179)
AfterSetIfNew(g, b) ==
    IF g.role = "caller"
    THEN [g EXCEPT !.pc = "idle", !.u32 = U32Zero,
                   !.n = Nil, !.sh = Nil, !.old = {}]
    ELSE [g EXCEPT !.pc = "loop", !.u32 = U32Zero,
                   !.n = Nil, !.sh = Nil, !.old = {},
                   !.localUniq = IF b THEN @ + 1 ELSE @]

\* getOrCreate, line 22: Load; a non-nil leaf is returned, otherwise the
\* new leaf of line 25 is allocated (private until the CAS publishes it)
GocLoad(t) ==
    /\ th[t].pc = "goc_load"
    /\ LET p == LoadSlot(th[t].u32.hi)
       IN  IF p # Nil
           THEN /\ th' = [th EXCEPT ![t].sh = p, ![t].pc = "word_load"]
                /\ heap' = heap
           ELSE /\ heap' = Append(heap, <<>>)
                /\ th' = [th EXCEPT ![t].n = Len(heap) + 1, ![t].pc = "goc_cas"]
    /\ UNCHANGED <<shards, unique, rets>>

\* a plausible slip: the leaf is stored without compare-and-swap
MutGocCAS(t) ==
    /\ th[t].pc = "goc_cas"
    /\ shards' = Put(shards, th[t].u32.hi, th[t].n)
    /\ th' = [th EXCEPT ![t].sh = th[t].n, ![t].pc = "word_load"]
    /\ UNCHANGED <<heap, unique, rets>>

\* getOrCreate, line 26: CompareAndSwap(nil, n)
GocCAS(t) ==
    /\ th[t].pc = "goc_cas"
    /\ IF LoadSlot(th[t].u32.hi) = Nil
       THEN /\ shards' = Put(shards, th[t].u32.hi, th[t].n)
            /\ th' = [th EXCEPT ![t].sh = th[t].n, ![t].pc = "word_load"]
       ELSE /\ shards' = shards
            /\ th' = [th EXCEPT ![t].pc = "goc_reload"]
    /\ UNCHANGED <<heap, unique, rets>>

\* getOrCreate, line 30: the loser loads the winner's leaf
GocReload(t) ==
    /\ th[t].pc = "goc_reload"
    /\ th' = [th EXCEPT ![t].sh = LoadSlot(th[t].u32.hi), ![t].pc = "word_load"]
    /\ UNCHANGED <<shards, heap, unique, rets>>

\* a plausible slip: the word is loaded before the loop, so that a retry
\* compares with the value of the first load that found a bit
MutWordLoad(t) ==
    /\ th[t].pc = "word_load"
    /\ LET old == IF th[t].old # {} THEN th[t].old
                  ELSE LoadWord(th[t].sh, WordIdx(th[t].u32.lo))
       IN  IF BitPos(th[t].u32.lo) \in old
           THEN /\ th' = [th EXCEPT ![t] = AfterSetIfNew(th[t], FALSE)]
                /\ rets' = Record(th[t].u32, FALSE)
           ELSE /\ th' = [th EXCEPT ![t].old = old, ![t].pc = "word_cas"]
                /\ rets' = rets
    /\ UNCHANGED <<shards, heap, unique>>

\* SetIfNew, lines 42-45: load the word; return false when the bit is set
WordLoad(t) ==
    /\ th[t].pc = "word_load"
    /\ LET old == LoadWord(th[t].sh, WordIdx(th[t].u32.lo))
       IN  IF BitPos(th[t].u32.lo) \in old
           THEN /\ th' = [th EXCEPT ![t] = AfterSetIfNew(th[t], FALSE)]
                /\ rets' = Record(th[t].u32, FALSE)
           ELSE /\ th' = [th EXCEPT ![t].old = old, ![t].pc = "word_cas"]
                /\ rets' = rets
    /\ UNCHANGED <<shards, heap, unique>>

\* a plausible slip: the word is stored without compare-and-swap
MutWordCAS(t) ==
    /\ th[t].pc = "word_cas"
    /\ LET idx == WordIdx(th[t].u32.lo)
       IN  /\ heap' = [heap EXCEPT ![th[t].sh] =
                          Put(@, idx, th[t].old \cup {BitPos(th[t].u32.lo)})]
           /\ th' = [th EXCEPT ![t] = AfterSetIfNew(th[t], TRUE)]
           /\ rets' = Record(th[t].u32, TRUE)
    /\ UNCHANGED <<shards, unique>>

\* a plausible slip: the CAS stores the mask instead of old|mask
MutMaskCAS(t) ==
    /\ th[t].pc = "word_cas"
    /\ LET idx == WordIdx(th[t].u32.lo)
       IN  IF LoadWord(th[t].sh, idx) = th[t].old
           THEN /\ heap' = [heap EXCEPT ![th[t].sh] =
                               Put(@, idx, {BitPos(th[t].u32.lo)})]
                /\ th' = [th EXCEPT ![t] = AfterSetIfNew(th[t], TRUE)]
                /\ rets' = Record(th[t].u32, TRUE)
           ELSE /\ heap' = heap
                /\ th' = [th EXCEPT ![t].pc = "word_load"]
                /\ rets' = rets
    /\ UNCHANGED <<shards, unique>>

\* SetIfNew, lines 46-48: CompareAndSwapUint64(old, old|mask); true on
\* success, otherwise another turn of the loop
WordCAS(t) ==
    /\ th[t].pc = "word_cas"
    /\ LET idx == WordIdx(th[t].u32.lo)
       IN  IF LoadWord(th[t].sh, idx) = th[t].old
           THEN /\ heap' = [heap EXCEPT ![th[t].sh] =
                               Put(@, idx, th[t].old \cup {BitPos(th[t].u32.lo)})]
                /\ th' = [th EXCEPT ![t] = AfterSetIfNew(th[t], TRUE)]
                /\ rets' = Record(th[t].u32, TRUE)
           ELSE /\ heap' = heap
                /\ th' = [th EXCEPT ![t].pc = "word_load"]
                /\ rets' = rets
    /\ UNCHANGED <<shards, unique>>

\* one atomic step of a SetIfNew call in progress
SetIfNewStep(t) ==
    \/ GocLoad(t)
    \/ GocCAS(t)
    \/ GocReload(t)
    \/ WordLoad(t)
    \/ WordCAS(t)

Member(x) ==
    /\ LoadSlot(x.hi) # Nil
    /\ BitPos(x.lo) \in LoadWord(LoadSlot(x.hi), WordIdx(x.lo))

---------------------------------------------------------------------------
(* Bitmap specification: concurrent clients calling SetIfNew *)

NumCallers == 3     \* concurrent clients
MaxCalls   == 3     \* calls of SetIfNew begun in one run, all clients together

\* the addresses a run calls SetIfNew with: two addresses in one word, in
\* two words of one leaf, or in two leaves
AddrSets == { { [hi |-> 0, lo |-> 0], [hi |-> 0, lo |-> 1] },
              { [hi |-> 0, lo |-> 0], [hi |-> 0, lo |-> 64] },
              { [hi |-> 0, lo |-> 0], [hi |-> 65535, lo |-> 65535] } }

SetAddrs == UNION AddrSets

Caller == [role |-> "caller", pc |-> "idle",
           u32 |-> U32Zero, n |-> Nil, sh |-> Nil, old |-> {}]

InitSet ==
    /\ InitBitset
    /\ th = [t \in 1..NumCallers |-> Caller]
    /\ sb = <<>>
    /\ \E S \in AddrSets : gen = [kind |-> "set", addrs |-> S]
    /\ parsed = NoResult
    /\ file = <<>> /\ nth = 1 /\ plan = NoResult
    /\ InitDriver
    /\ app = NoApp
    /\ retry = <<>>

\* the calls of SetIfNew(x) begun so far, finished or not
CallsOf(x) ==
    Trues(x) + Falses(x)
      + Cardinality({ t \in DOMAIN th : th[t].pc # "idle" /\ th[t].u32 = x })

RECURSIVE SumCalls(_)
SumCalls(S) ==
    IF S = {} THEN 0
    ELSE LET x == CHOOSE y \in S : TRUE IN CallsOf(x) + SumCalls(S \ {x})

CallsBegun == SumCalls(gen.addrs)

\* a client calls SetIfNew(x): lines 35-40 are local
Call(t, x) ==
    /\ th[t].pc = "idle"
    /\ CallsBegun < MaxCalls
    /\ th' = [th EXCEPT ![t].pc = "goc_load", ![t].u32 = x]
    /\ UNCHANGED <<shards, heap, unique, rets>>

NextSet ==
    \/ \E t \in DOMAIN th, x \in gen.addrs : Call(t, x) /\ UNCHANGED <<hvars, avars, pvars, fvars, dvars>>
    \/ \E t \in DOMAIN th : GocLoad(t) /\ UNCHANGED <<hvars, avars, pvars, fvars, dvars>>
    \/ \E t \in DOMAIN th : GocCAS(t) /\ UNCHANGED <<hvars, avars, pvars, fvars, dvars>>
    \/ \E t \in DOMAIN th : GocReload(t) /\ UNCHANGED <<hvars, avars, pvars, fvars, dvars>>
    \/ \E t \in DOMAIN th : WordLoad(t) /\ UNCHANGED <<hvars, avars, pvars, fvars, dvars>>
    \/ \E t \in DOMAIN th : WordCAS(t) /\ UNCHANGED <<hvars, avars, pvars, fvars, dvars>>

SpecSet == InitSet /\ [][NextSet]_vars

AllIdle == \A t \in DOMAIN th : th[t].pc = "idle"

\* C1: among any number of concurrent SetIfNew(x) calls exactly one
\* returns true: never two, a false return only after the bit was set by
\* the call that returns true, and once every call has returned one of them
\* returned true; a later call returns false.
C1_ExactlyOneTrue ==
    \A x \in SetAddrs :
        /\ Trues(x) <= 1
        /\ Falses(x) > 0 => Trues(x) = 1
        /\ (AllIdle /\ CallsOf(x) > 0) => Trues(x) = 1

\* C1 witness: three calls of SetIfNew on one address have all returned,
\* two of them false.
C1_Witness ==
    \E x \in SetAddrs : AllIdle /\ Trues(x) = 1 /\ Falses(x) >= 2

\* the addresses whose bit is 1 in a leaf installed in the directory,
\* read off the words: word idx of leaf hi holds the addresses
\* hi * 65536 + idx * 64 + 0..63
AllMembers ==
    UNION { UNION { { [hi |-> h, lo |-> i * 64 + b] : b \in heap[shards[h]][i] } :
                    i \in DOMAIN heap[shards[h]] } :
            h \in { k \in DOMAIN shards : shards[k] # Nil } }

\* the bitmap is the set of the addresses for which a call returned true
C15_IsSet == AllMembers = { x \in SetAddrs : Trues(x) = 1 }

\* a call returns true only on adding its address to the set, false only
\* when its address is in the set, and no step changes the membership of
\* any other address
C15_SetSteps ==
    /\ \A x \in SetAddrs :
          /\ Trues(x)' > Trues(x) =>
                /\ x \notin AllMembers
                /\ AllMembers' = AllMembers \cup {x}
          /\ Falses(x)' > Falses(x) =>
                /\ x \in AllMembers
                /\ AllMembers' = AllMembers
    /\ rets' = rets => AllMembers' = AllMembers

\* C15: the bitmap behaves as a set of addresses under concurrent
\* SetIfNew calls: SetIfNew(x) returns true exactly when x was not yet a
\* member, and setting x changes the membership of no y # x, in another
\* leaf, in another word of the leaf, or in the same word.
C15_BitmapIsSet ==
    /\ []C15_IsSet
    /\ [][C15_SetSteps]_vars

\* C15 witness: two addresses in two words of one leaf are both members
\* after three calls, one of which returned false.
C15_Witness ==
    /\ AllIdle
    /\ AllMembers = { [hi |-> 0, lo |-> 0], [hi |-> 0, lo |-> 64] }
    /\ \E x \in SetAddrs : Falses(x) = 1

\* a goroutine holds the leaf that getOrCreate returned to it
HoldsLeaf(t) == th[t].pc \in {"word_load", "word_cas"}

\* every leaf returned by getOrCreate(hi) is the non-nil leaf of slot hi,
\* distinct slots hold distinct leaves, and a leaf that is in no slot has
\* no bit set
C16_OneLeaf ==
    /\ \A t \in DOMAIN th :
          HoldsLeaf(t) => (th[t].sh # Nil /\ th[t].sh = LoadSlot(th[t].u32.hi))
    /\ \A h1, h2 \in DOMAIN shards : shards[h1] = shards[h2] => h1 = h2
    /\ \A p \in 1..Len(heap) :
          heap[p] # <<>> => \E h \in DOMAIN shards : shards[h] = p

\* a slot that holds a leaf keeps it
C16_SlotKept ==
    \A h \in DOMAIN shards :
        shards[h] # Nil => (h \in DOMAIN shards' /\ shards'[h] = shards[h])

\* C16: concurrent getOrCreate(hi) calls on an absent slot all return the
\* same non-nil leaf, the one stored in the slot, and a slot that holds a
\* leaf never changes; no bit is ever set in a discarded leaf.
C16_LeafPublishedOnce ==
    /\ []C16_OneLeaf
    /\ [][C16_SlotKept]_vars

\* C16 witness: a leaf allocated by the loser of the publication was
\* discarded, and two goroutines hold the one leaf of the slot.
C16_Witness ==
    /\ Len(heap) > Cardinality(DOMAIN shards)
    /\ \E t1, t2 \in DOMAIN th :
          /\ t1 # t2
          /\ HoldsLeaf(t1) /\ HoldsLeaf(t2)
          /\ th[t1].sh = th[t2].sh

\* the word that SetIfNew of goroutine t works on
WordOf(t) == LoadWord(th[t].sh, WordIdx(th[t].u32.lo))

\* the words of leaf p that hold a bit
WordsOf(p) == DOMAIN heap[p]

\* every bit of every word of every leaf is still set after the step
C25_BitsKept ==
    /\ Len(heap') >= Len(heap)
    /\ \A p \in 1..Len(heap) :
          \A i \in WordsOf(p) :
              /\ i \in DOMAIN heap'[p]
              /\ heap[p][i] \subseteq heap'[p][i]

\* a word that changes goes from w to w | mask, for the mask of a
\* goroutine at its CAS on that word, and no other word changes with it
C25_OrMask ==
    \A p \in 1..Len(heap) :
        heap'[p] # heap[p] =>
            \E t \in DOMAIN th :
                /\ th[t].pc = "word_cas"
                /\ th[t].sh = p
                /\ heap'[p] = Put(heap[p], WordIdx(th[t].u32.lo),
                                  WordOf(t) \cup {BitPos(th[t].u32.lo)})
                /\ \A q \in 1..Len(heap) : q # p => heap'[q] = heap[q]

\* C25: under every interleaving of SetIfNew calls a bit of the bitmap
\* that has been set is never cleared: a word of a leaf only ever changes
\* from w to w | mask.
C25_BitsNeverCleared ==
    /\ [][C25_BitsKept]_vars
    /\ [][C25_OrMask]_vars
    /\ [][AllMembers \subseteq AllMembers']_vars

\* C25 witness: a word holds two bits, set one after the other by two
\* calls that both returned true.
C25_Witness ==
    /\ AllIdle
    /\ \E p \in 1..Len(heap) : LoadWord(p, 0) = {0, 1}
    /\ Trues([hi |-> 0, lo |-> 0]) = 1
    /\ Trues([hi |-> 0, lo |-> 1]) = 1
    /\ rets[[hi |-> 0, lo |-> 0]].f + rets[[hi |-> 0, lo |-> 1]].f = 0

---------------------------------------------------------------------------
(* Retry specification: SetIfNew calls on the bits of one word, with the
   failed CAS of every call counted *)

WordBits == 64      \* the bits of a uint64 word

\* three addresses of word 0 of leaf 0
RetryAddrs == { [hi |-> 0, lo |-> b] : b \in 0..2 }

\* the address that goroutine t sets: the three first goroutines have a
\* bit each, a further one shares the bit of the first
AddrOf(t) == [hi |-> 0, lo |-> (t - 1) % Cardinality(RetryAddrs)]

NoRetry == [fails |-> 0, loaded |-> FALSE, first |-> {}]

InitRetry ==
    /\ InitBitset
    /\ th = [t \in 1..NumCallers |-> Caller]
    /\ retry = [t \in 1..NumCallers |-> NoRetry]
    /\ sb = <<>>
    /\ gen = [kind |-> "set", addrs |-> RetryAddrs]
    /\ parsed = NoResult
    /\ file = <<>> /\ nth = 1 /\ plan = NoResult
    /\ InitDriver
    /\ app = NoApp

\* the history of the step of goroutine t: a call starts and ends with no
\* failure, its first load is kept, a CAS that sends it back to the load
\* is counted
Observe(t) ==
    retry' = [retry EXCEPT ![t] =
                IF th'[t].pc = "idle" THEN NoRetry
                ELSE IF th[t].pc = "word_load" /\ ~@.loaded
                THEN [@ EXCEPT !.loaded = TRUE, !.first = WordOf(t)]
                ELSE IF th[t].pc = "word_cas" /\ th'[t].pc = "word_load"
                THEN [@ EXCEPT !.fails = @ + 1]
                ELSE @]

RetryFrame == UNCHANGED <<avars, pvars, fvars, dvars>>

NextRetry ==
    \/ \E t \in DOMAIN th : Call(t, AddrOf(t)) /\ Observe(t) /\ RetryFrame
    \/ \E t \in DOMAIN th : GocLoad(t) /\ Observe(t) /\ RetryFrame
    \/ \E t \in DOMAIN th : GocCAS(t) /\ Observe(t) /\ RetryFrame
    \/ \E t \in DOMAIN th : GocReload(t) /\ Observe(t) /\ RetryFrame
    \/ \E t \in DOMAIN th : WordLoad(t) /\ Observe(t) /\ RetryFrame
    \/ \E t \in DOMAIN th : WordCAS(t) /\ Observe(t) /\ RetryFrame

SpecRetry == InitRetry /\ [][NextRetry]_vars

\* a step of the SetIfNew call of goroutine 1
FirstCallerStep == SetIfNewStep(1) /\ Observe(1) /\ RetryFrame

\* the scheduler runs goroutine 1 again and again; nothing is required
\* of the other goroutines, which may stop anywhere or run for ever
SpecRetryFair == InitRetry /\ [][NextRetry]_vars /\ WF_vars(FirstCallerStep)

InCall(t) == th[t].pc # "idle"

\* goroutine t is in the retry loop of SetIfNew
InLoop(t) == th[t].pc \in {"word_load", "word_cas"}

\* the bits of the word of t set since the first load of its call; its
\* own call sets none before it returns
NewBits(t) ==
    IF retry[t].loaded THEN WordOf(t) \ retry[t].first ELSE {}

\* a call in progress can always take its next step, whatever the other
\* goroutines do or fail to do
C24_NeverWaits ==
    \A t \in DOMAIN th : InCall(t) => ENABLED SetIfNewStep(t)

\* the failed CAS of a call are at most the bits that other goroutines
\* set in its word during the call, which are fewer than the word's bits
C24_FailsBounded ==
    \A t \in DOMAIN th :
        InLoop(t) =>
            /\ retry[t].fails <= Cardinality(NewBits(t))
            /\ WordOf(t) \subseteq 0..(WordBits - 1)
            /\ BitPos(th[t].u32.lo) \notin retry[t].first
            /\ retry[t].fails <= WordBits

\* a CAS fails only when the word holds a bit that the load did not see
C24_FailSteps ==
    \A t \in DOMAIN th :
        (th[t].pc = "word_cas" /\ th'[t].pc = "word_load") =>
            /\ WordOf(t) # th[t].old
            /\ th[t].old \subseteq WordOf(t)

\* C24: every SetIfNew call terminates in every interleaving with other
\* SetIfNew calls, without waiting on any other goroutine: its CAS fails
\* at most once per bit newly set by another goroutine in the same word,
\* hence at most 64 times.
C24_WaitFree ==
    /\ []C24_NeverWaits
    /\ []C24_FailsBounded
    /\ [][C24_FailSteps]_vars
    /\ (InCall(1) ~> ~InCall(1))

\* C24 witness: the CAS of the call of goroutine 1 has failed twice, once
\* for each bit that the two other goroutines set, whose calls have
\* returned; its third CAS is about to succeed.
C24_Witness ==
    /\ th[1].pc = "word_cas"
    /\ retry[1].fails = 2
    /\ Cardinality(NewBits(1)) = 2
    /\ th[1].old = WordOf(1)
    /\ \A t \in DOMAIN th : t # 1 => ~InCall(t)

---------------------------------------------------------------------------
(* The input file: a sequence of runs <<byte, count>>, count >= 1 *)

RECURSIVE SizeFrom(_, _)
SizeFrom(f, k) == IF k > Len(f) THEN 0 ELSE f[k][2] + SizeFrom(f, k + 1)

\* fi.Size()
Size(f) == SizeFrom(f, 1)

\* the byte at offset off (0-based), off < Size(f)
RECURSIVE ByteFrom(_, _, _, _)
ByteFrom(f, k, base, off) ==
    IF off < base + f[k][2] THEN f[k][1] ELSE ByteFrom(f, k + 1, base + f[k][2], off)

ByteAt(f, off) == ByteFrom(f, 1, 0, off)

\* bytes.IndexByte over the file bytes [from, to): the offset of the
\* first '\n' in the range, or -1
RECURSIVE FindNL(_, _, _, _, _)
FindNL(f, k, base, from, to) ==
    IF k > Len(f) \/ base >= to THEN -1
    ELSE LET end == base + f[k][2]
             p   == IF base > from THEN base ELSE from
         IN  IF f[k][1] = NL /\ end > from
             THEN IF p < to THEN p ELSE -1
             ELSE FindNL(f, k + 1, end, from, to)

IndexNL(f, from, to) == FindNL(f, 1, 0, from, to)

Min(a, b) == IF a < b THEN a ELSE b

---------------------------------------------------------------------------
(* internal/file_processor: splitToShards, moveStartToNewline *)

ScanBufSize == 65536      \* 64 << 10

NoErr == "nil"

\* moveStartToNewline, lines 114-127: the loop from offset off on.  reads
\* counts the ReadAt calls of the whole planning made so far; the call
\* number failAt fails with an I/O error (failAt = 0: none fails).
RECURSIVE MoveLoop(_, _, _, _, _)
MoveLoop(f, s, off, reads, failAt) ==
    IF off >= s.End
    THEN [s |-> [Start |-> s.End, End |-> s.End], err |-> NoErr, reads |-> reads]
    ELSE IF reads + 1 = failAt
    THEN [s |-> s, err |-> "EIO", reads |-> reads + 1]
    ELSE LET n   == IF off >= Size(f) THEN 0 ELSE Min(ScanBufSize, Size(f) - off)
             idx == IndexNL(f, off, off + n)
         IN  IF n = 0
             THEN [s |-> s, err |-> "EOF", reads |-> reads + 1]
             ELSE IF idx >= 0
             THEN [s |-> [Start |-> idx + 1, End |-> s.End], err |-> NoErr,
                   reads |-> reads + 1]
             ELSE MoveLoop(f, s, off + n, reads + 1, failAt)

moveStartToNewline(f, s, reads, failAt) ==
    IF s.Start = 0
    THEN [s |-> s, err |-> NoErr, reads |-> reads]
    ELSE MoveLoop(f, s, s.Start, reads, failAt)

\* a plausible slip: the previous shard keeps its naive end
RECURSIVE MutSplitLoop(_, _, _, _, _, _, _, _, _)
MutSplitLoop(f, size, n, part, i, start, shs, reads, failAt) ==
    IF i >= n
    THEN [shs |-> shs, err |-> NoErr, reads |-> reads]
    ELSE LET end == IF i = n - 1 \/ start + part > size THEN size ELSE start + part
             cur == [Start |-> start, End |-> end]
         IN  IF i > 0
             THEN LET m == moveStartToNewline(f, cur, reads, failAt)
                  IN  IF m.err # NoErr
                      THEN [shs |-> <<>>, err |-> m.err, reads |-> m.reads]
                      ELSE MutSplitLoop(f, size, n, part, i + 1, end,
                                        Append(shs, m.s), m.reads, failAt)
             ELSE MutSplitLoop(f, size, n, part, i + 1, end, Append(shs, cur),
                               reads, failAt)

\* splitToShards, lines 84-101: the loop from iteration i (0-based) on
RECURSIVE SplitLoop(_, _, _, _, _, _, _, _, _)
SplitLoop(f, size, n, part, i, start, shs, reads, failAt) ==
    IF i >= n
    THEN [shs |-> shs, err |-> NoErr, reads |-> reads]
    ELSE LET end == IF i = n - 1 \/ start + part > size THEN size ELSE start + part
             cur == [Start |-> start, End |-> end]
         IN  IF i > 0
             THEN LET m == moveStartToNewline(f, cur, reads, failAt)
                  IN  IF m.err # NoErr
                      THEN [shs |-> <<>>, err |-> m.err, reads |-> m.reads]
                      ELSE SplitLoop(f, size, n, part, i + 1, end,
                                     Append([shs EXCEPT ![i].End = m.s.Start], m.s),
                                     m.reads, failAt)
             ELSE SplitLoop(f, size, n, part, i + 1, end, Append(shs, cur),
                            reads, failAt)

\* a plausible slip: one worker per byte when there are more workers than bytes
MutWorkers(size, n0) == IF n0 > size THEN size ELSE n0

\* splitToShards, lines 73-75
Workers(size, n0) == IF n0 > size THEN 1 ELSE n0

\* Go's integer division of a positive a: the quotient truncated toward zero
GoDiv(a, b) == IF b > 0 THEN a \div b ELSE -(a \div (-b))

\* splitToShards: a zero n panics in the division of line 77, a negative
\* n with a non-zero quotient in the make of line 82
splitToShards(f, size, n0, failAt) ==
    IF size <= 0
    THEN [shs |-> <<>>, err |-> NoErr, reads |-> 0]
    ELSE LET n1 == Workers(size, n0)
         IN  IF n1 = 0
             THEN [shs |-> <<>>, err |-> "panic", reads |-> 0]
             ELSE LET p1   == GoDiv(size, n1)
                      part == IF p1 = 0 THEN size ELSE p1
                      n    == IF p1 = 0 THEN 1 ELSE n1
                  IN  IF n < 0
                      THEN [shs |-> <<>>, err |-> "panic", reads |-> 0]
                      ELSE SplitLoop(f, size, n, part, 0, 0, <<>>, 0, failAt)

---------------------------------------------------------------------------
(* internal/file_processor: processShard *)

ReadBufSize == 2097152    \* 2 << 20
FlushEvery  == 262144     \* 256 << 10
MaxIPLen    == 15

\* bufio.Reader.fill over io.NewSectionReader(f, s.Start, s.End-s.Start):
\* one Read of the section into the free part of the buffer.  The buffer
\* holds the file bytes [r, w).  At its limit the section returns io.EOF
\* without reading the file; fail: the underlying ReadAt fails.
Fill(f, s, r, w, fail) ==
    LET limit == Min(s.End, Size(f))
    IN  IF w >= limit THEN [w |-> w, berr |-> "EOF"]
        ELSE IF fail THEN [w |-> w, berr |-> "EIO"]
        ELSE [w |-> w + Min(ReadBufSize - (w - r), limit - w), berr |-> NoErr]

\* bufio.Reader.ReadSlice('\n'): the line [from, to) and the error
RECURSIVE ReadSlice(_, _, _, _, _, _)
ReadSlice(f, s, r, w, berr, fail) ==
    LET idx == IndexNL(f, r, w)
    IN  IF idx >= 0
        THEN [from |-> r, to |-> idx + 1, err |-> NoErr,
              r |-> idx + 1, w |-> w, berr |-> berr]
        ELSE IF berr # NoErr
        THEN [from |-> r, to |-> w, err |-> berr,
              r |-> w, w |-> w, berr |-> NoErr]
        ELSE IF w - r >= ReadBufSize
        THEN [from |-> r, to |-> w, err |-> "ErrBufferFull",
              r |-> w, w |-> w, berr |-> NoErr]
        ELSE LET fl == Fill(f, s, r, w, fail)
             IN  ReadSlice(f, s, r, fl.w, fl.berr, FALSE)

\* a plausible slip: only the '\n' is trimmed
MutTrimLF(f, from, to) ==
    IF to > from /\ ByteAt(f, to - 1) = NL THEN to - 1 ELSE to

\* trimCRLF on the view [from, to) of the file: the new end
RECURSIVE trimCRLF(_, _, _)
trimCRLF(f, from, to) ==
    IF to > from /\ (ByteAt(f, to - 1) = NL \/ ByteAt(f, to - 1) = CR)
    THEN trimCRLF(f, from, to - 1)
    ELSE to

\* the bytes [from, to) of the file as a slice.  The parser reads no byte
\* of a slice longer than 15 bytes (bitset.go:65), so that a longer view is
\* handed over as its first 16 bytes.
Slice(f, from, to) ==
    [i \in 1..Min(to - from, MaxIPLen + 1) |-> ByteAt(f, from + i - 1)]

\* handed is history: the views [from, to) of the file that the scanner
\* has passed to trimCRLF and the parser (line 173), in order; late is
\* history: the number of ReadSlice calls the scanner has made while the
\* signal was tripped
Scanner(s) ==
    [role |-> "scanner", pc |-> "loop", s |-> s,
     r |-> s.Start, w |-> s.Start, berr |-> NoErr,
     local |-> 0, localUniq |-> 0, err |-> NoErr,
     u32 |-> U32Zero, n |-> Nil, sh |-> Nil, old |-> {},
     handed |-> <<>>, late |-> 0]

\* a plausible slip: the group's context is not derived from the caller's
MutCtxErr == IF group.done THEN "canceled" ELSE NoErr

\* ctx.Err() of the group's context, a child of the caller's context
CtxErr == IF ctxDone \/ group.done THEN "canceled" ELSE NoErr

\* processShard, lines 158-178, the turn of the loop after its check, up
\* to the call of SetIfNew: ReadSlice, the progress accounting, trimCRLF
\* and the parser.  A return goes through the deferred function, anything
\* else leads back to the head of the loop.
Turn(t) ==
    \E fail \in BOOLEAN :
    LET g  == [th[t] EXCEPT !.pc = "loop",
                            !.late = IF CtxErr # NoErr THEN @ + 1 ELSE @]
        rs == ReadSlice(file, g.s, g.r, g.w, g.berr, fail)
        g1 == [g EXCEPT !.r = rs.r, !.w = rs.w, !.berr = rs.berr]
    IN  IF rs.err = "EOF"
        THEN /\ th' = [th EXCEPT ![t] = [g1 EXCEPT !.err = NoErr, !.pc = "defer"]]
             /\ progress' = progress
        ELSE IF rs.err # NoErr
        THEN /\ th' = [th EXCEPT ![t] = [g1 EXCEPT !.err = rs.err, !.pc = "defer"]]
             /\ progress' = progress
        ELSE IF rs.to - rs.from > 0
        THEN LET local == g.local + (rs.to - rs.from)
                 flush == local >= FlushEvery
                 ip    == IPv4ByteToUint32(
                             Slice(file, rs.from, trimCRLF(file, rs.from, rs.to)))
                 g2    == [g1 EXCEPT !.local = IF flush THEN 0 ELSE local,
                                     !.handed = Append(@, <<rs.from, rs.to>>)]
             IN  /\ progress' = IF flush THEN progress + local ELSE progress
                 /\ th' = [th EXCEPT ![t] =
                             IF ip.ok
                             THEN [g2 EXCEPT !.u32 = ip.acc, !.pc = "goc_load"]
                             ELSE g2]
        ELSE /\ th' = [th EXCEPT ![t] = g1]
             /\ progress' = progress

\* processShard, lines 152-179, one turn of the loop as one step: the
\* cancellation check and, when it passes, the rest of the turn.  The check
\* reads flags that only ever go from false to true, so that a check that
\* passes and the read that follows it can be taken together wherever the
\* steps made after the signal are not counted.
ScanLine(t) ==
    /\ t \in DOMAIN th
    /\ th[t].role = "scanner"
    /\ th[t].pc = "loop"
    /\ IF CtxErr # NoErr
       THEN /\ th' = [th EXCEPT ![t].err = CtxErr, ![t].pc = "defer"]
            /\ progress' = progress
       ELSE Turn(t)
    /\ UNCHANGED <<shards, heap, unique, rets, ctxDone, group, pf>>

\* a plausible slip: the signal is checked once, before the first read
MutCheckCtx(t) ==
    /\ t \in DOMAIN th
    /\ th[t].role = "scanner"
    /\ th[t].pc = "loop"
    /\ IF CtxErr # NoErr /\ th[t].r = th[t].s.Start
       THEN th' = [th EXCEPT ![t].err = CtxErr, ![t].pc = "defer"]
       ELSE th' = [th EXCEPT ![t].pc = "read"]
    /\ UNCHANGED <<shards, heap, unique, rets, ctxDone, group, pf, progress>>

\* processShard, lines 153-155, the check alone: if err := ctx.Err()
CheckCtx(t) ==
    /\ t \in DOMAIN th
    /\ th[t].role = "scanner"
    /\ th[t].pc = "loop"
    /\ IF CtxErr # NoErr
       THEN th' = [th EXCEPT ![t].err = CtxErr, ![t].pc = "defer"]
       ELSE th' = [th EXCEPT ![t].pc = "read"]
    /\ UNCHANGED <<shards, heap, unique, rets, ctxDone, group, pf, progress>>

\* processShard, lines 158-178, after a check that passed
ReadLine(t) ==
    /\ t \in DOMAIN th
    /\ th[t].role = "scanner"
    /\ th[t].pc = "read"
    /\ Turn(t)
    /\ UNCHANGED <<shards, heap, unique, rets, ctxDone, group, pf>>

\* a plausible slip: AddUnique stores n instead of adding it
MutAddUnique(n) == IF n # 0 THEN n ELSE unique

\* Bitset.AddUnique: the new value of the counter
AddUnique(n) == IF n # 0 THEN unique + n ELSE unique

\* processShard, lines 145-150: the deferred function, run on every return
Deferred(t) ==
    /\ t \in DOMAIN th
    /\ th[t].pc = "defer"
    /\ unique' = IF th[t].localUniq > 0 THEN AddUnique(th[t].localUniq) ELSE unique
    /\ progress' = IF th[t].local # 0 THEN progress + th[t].local ELSE progress
    /\ th' = [th EXCEPT ![t].local = 0, ![t].pc = "return"]
    /\ UNCHANGED <<shards, heap, rets, ctxDone, group, pf>>

---------------------------------------------------------------------------
(* internal/file_processor: ProcessFile; errgroup *)

\* ProcessFile, lines 46-61: the size check, the planning, and one g.Go
\* per shard of the plan.  A panic of the planner ends the process.
Launch ==
    /\ pf.pc = "start"
    /\ IF Size(file) <= 0
       THEN /\ pf' = [pc |-> "returned", ret |-> NoErr, pre |-> ctxDone]
            /\ UNCHANGED <<plan, th>>
       ELSE \E failAt \in 0..splitToShards(file, Size(file), nth, 0).reads :
            LET pl == splitToShards(file, Size(file), nth, failAt)
            IN  IF pl.err = "panic"
                THEN /\ pf' = [pc |-> "panic", ret |-> NoErr, pre |-> ctxDone]
                     /\ UNCHANGED <<plan, th>>
                ELSE IF pl.err # NoErr
                THEN /\ pf' = [pc |-> "returned", ret |-> pl.err, pre |-> ctxDone]
                     /\ UNCHANGED <<plan, th>>
                ELSE /\ pf' = [pc |-> "wait", ret |-> NoErr, pre |-> ctxDone]
                     /\ plan' = pl
                     /\ th' = [t \in 1..Len(pl.shs) |-> Scanner(pl.shs[t])]
    /\ UNCHANGED <<shards, heap, unique, rets, ctxDone, group, progress>>

\* a plausible slip: every error replaces the one kept so far
MutReturn(t) ==
    /\ t \in DOMAIN th
    /\ th[t].pc = "return"
    /\ group' = IF th[t].err # NoErr
                THEN [done |-> TRUE, err |-> th[t].err]
                ELSE group
    /\ th' = [th EXCEPT ![t].pc = "done"]
    /\ UNCHANGED <<shards, heap, unique, rets, ctxDone, pf, progress>>

\* errgroup.Group.Go, the wrapper of the goroutine: the first non-nil
\* error is kept and cancels the group's context; then the goroutine is done
Return(t) ==
    /\ t \in DOMAIN th
    /\ th[t].pc = "return"
    /\ group' = IF th[t].err # NoErr /\ group.err = NoErr
                THEN [done |-> TRUE, err |-> th[t].err]
                ELSE group
    /\ th' = [th EXCEPT ![t].pc = "done"]
    /\ UNCHANGED <<shards, heap, unique, rets, ctxDone, pf, progress>>

\* a plausible slip: the wait ends at the first error of a scanner
MutWait ==
    /\ pf.pc = "wait"
    /\ \/ \A t \in DOMAIN th : th[t].pc = "done"
       \/ group.err # NoErr
    /\ pf' = [pf EXCEPT !.pc = "returned", !.ret = group.err]
    /\ group' = [group EXCEPT !.done = TRUE]
    /\ UNCHANGED <<shards, heap, unique, rets, th, ctxDone, progress>>

\* ProcessFile, lines 62-66: g.Wait() returns once every goroutine is done
Wait ==
    /\ pf.pc = "wait"
    /\ \A t \in DOMAIN th : th[t].pc = "done"
    /\ pf' = [pf EXCEPT !.pc = "returned", !.ret = group.err]
    /\ group' = [group EXCEPT !.done = TRUE]
    /\ UNCHANGED <<shards, heap, unique, rets, th, ctxDone, progress>>

\* the caller's context is cancelled (a signal, or the caller's cancel())
Cancel ==
    /\ ~ctxDone
    /\ pf.pc # "returned"
    /\ ctxDone' = TRUE
    /\ UNCHANGED <<shards, heap, unique, rets, th, group, pf, progress>>

---------------------------------------------------------------------------
(* Parser specification: inputs *)

\* component values and zero-padded widths of the well-formed inputs
CompVals  == {0, 1, 9, 10, 99, 128, 255}
PadWidths == {1, 3}

RECURSIVE Digits(_)
Digits(n) == IF n < 10 THEN <<Dg(n)>> ELSE Digits(n \div 10) \o <<Dg(n % 10)>>

RECURSIVE Pad(_, _)
Pad(s, w) == IF Len(s) >= w THEN s ELSE Pad(<<D0>> \o s, w)

RECURSIVE Join(_)
Join(cs) == IF Len(cs) = 0 THEN <<>>
            ELSE IF Len(cs) = 1 THEN cs[1]
            ELSE cs[1] \o <<DOT>> \o Join(Tail(cs))

QuadText(q) == Join([i \in 1..4 |-> Pad(Digits(q.v[i]), q.w[i])])

Quads == [v : [1..4 -> CompVals], w : [1..4 -> PadWidths]]

\* components of the malformed inputs
RawComps == { <<>>, <<Dg(1)>>, <<Dg(1), Dg(0)>>, <<Dg(2), Dg(5), Dg(6)>>,
              <<Dg(0), Dg(2), Dg(5), Dg(5)>>, <<SP, Dg(1)>>, <<Dg(1), SP, Dg(1)>>,
              <<Dg(1), Dg(1), LA>> }
MaxRawComps == 5


---------------------------------------------------------------------------
(* Parser specification *)

InitParse ==
    /\ InitBitset
    /\ th = <<>>
    /\ file = <<>> /\ nth = 1 /\ plan = NoResult
    /\ InitDriver
    /\ app = NoApp
    /\ retry = <<>>
    /\ parsed = NoResult
    /\ \/ \E q \in Quads : gen = [kind |-> "quad", q |-> q] /\ sb = QuadText(q)
       \/ \E k \in 1..MaxRawComps : \E cs \in [1..k -> RawComps] :
             gen = [kind |-> "raw"] /\ sb = Join(cs)

Parse ==
    /\ parsed = NoResult
    /\ parsed' = IPv4ByteToUint32(sb)
    /\ UNCHANGED <<sb, gen>>
    /\ UNCHANGED <<hvars, avars, bvars, fvars, dvars>>

NextParse == Parse

SpecParse == InitParse /\ [][NextParse]_vars

---------------------------------------------------------------------------
(* Parser claims *)

\* the components of s: the maximal runs of bytes between '.' bytes
RECURSIVE SplitDots(_, _)
SplitDots(s, cur) ==
    IF Len(s) = 0 THEN <<cur>>
    ELSE IF Head(s) = DOT THEN <<cur>> \o SplitDots(Tail(s), <<>>)
    ELSE SplitDots(Tail(s), Append(cur, Head(s)))

Components(s) == SplitDots(s, <<>>)

IsDigit(c) == c >= D0 /\ c <= D0 + 9

RECURSIVE StripZeros(_)
StripZeros(s) == IF Len(s) > 0 /\ Head(s) = D0 THEN StripZeros(Tail(s)) ELSE s

\* the decimal value of an all-digit component exceeds 255
Exceeds255(c) ==
    LET t == StripZeros(c)
    IN  \/ Len(t) > 3
        \/ /\ Len(t) = 3
           /\ (t[1] - D0) * 100 + (t[2] - D0) * 10 + (t[3] - D0) > 255

HasEmptyComponent(s) ==
    \E i \in 1..Len(Components(s)) : Len(Components(s)[i]) = 0

DotCount(s) == Cardinality({ i \in 1..Len(s) : s[i] = DOT })

\* (a<<24)|(b<<16)|(c<<8)|d
U32Of(a, b, c, d) == [hi |-> a * 256 + b, lo |-> c * 256 + d]

\* C6: an input with an empty component (leading '.', trailing '.' or two
\* adjacent '.'), of whatever length, is rejected: ok = false.
C6_EmptyComponentRejected ==
    (parsed # NoResult /\ HasEmptyComponent(sb)) => ~parsed.ok

\* C7: the decimal text of a.b.c.d, a, b, c, d in 0..255, with or without
\* leading zeros and at most 15 bytes long, parses to
\* ((a<<24)|(b<<16)|(c<<8)|d, true).
C7_ParseCorrect ==
    (parsed # NoResult /\ gen.kind = "quad" /\ Len(sb) <= 15) =>
        parsed = [acc |-> U32Of(gen.q.v[1], gen.q.v[2], gen.q.v[3], gen.q.v[4]),
                  ok  |-> TRUE]

\* C7 witness: a zero-padded quad with a component above 127 in every
\* position class has been parsed.
C7_Witness ==
    /\ parsed # NoResult
    /\ gen.kind = "quad"
    /\ gen.q.v = <<128, 255, 9, 10>>
    /\ gen.q.w = <<3, 1, 3, 1>>
    /\ parsed.ok

\* C8: length outside [7,15], a byte other than '0'-'9' and '.', a number
\* of '.' other than 3, or a component above 255: each gives ok = false.
Malformed(s) ==
    \/ Len(s) < 7
    \/ Len(s) > 15
    \/ \E i \in 1..Len(s) : ~IsDigit(s[i]) /\ s[i] # DOT
    \/ DotCount(s) # 3
    \/ \E i \in 1..Len(Components(s)) :
          /\ \A j \in 1..Len(Components(s)[i]) : IsDigit(Components(s)[i][j])
          /\ Exceeds255(Components(s)[i])

C8_MalformedRejected ==
    (parsed # NoResult /\ Malformed(sb)) => ~parsed.ok

\* C8 witness: an input of legal length, three dots and digits only whose
\* last component is 256 has been parsed and rejected.
C8_Witness ==
    /\ parsed # NoResult
    /\ sb = <<Dg(1), DOT, Dg(1), DOT, Dg(1), DOT, Dg(2), Dg(5), Dg(6)>>
    /\ ~parsed.ok

---------------------------------------------------------------------------
(* Planner specification: inputs *)

A == 65                       \* 'A', a filler byte

\* a line of len filler bytes followed by '\n'
FillLine(len) == IF len = 0 THEN <<<<NL, 1>>>> ELSE <<<<A, len>>, <<NL, 1>>>>

\* lengths of the lines and of the unterminated tail of the planner's files
LineLens == {0, 3, 65536, 140000}
TailLens == {0, 2, 70000}
MaxLines == 3
MaxWorkers == 4

RECURSIVE Flatten(_)
Flatten(ls) == IF Len(ls) = 0 THEN <<>> ELSE Head(ls) \o Flatten(Tail(ls))

PlanFiles ==
    { Flatten([i \in 1..Len(ls) |-> FillLine(ls[i])])
        \o (IF t = 0 THEN <<>> ELSE <<<<A, t>>>>) :
      ls \in UNION { [1..k -> LineLens] : k \in 0..MaxLines }, t \in TailLens }
    \ { <<>> }

---------------------------------------------------------------------------
(* Planner specification *)

InitPlan ==
    /\ InitBitset
    /\ th = <<>>
    /\ sb = <<>> /\ gen = [kind |-> "none"] /\ parsed = NoResult
    /\ file \in PlanFiles
    /\ nth \in 1..MaxWorkers
    /\ plan = NoResult
    /\ InitDriver
    /\ app = NoApp
    /\ retry = <<>>

\* ReadAt calls of the planning when none fails
PlanReads(f, n) == splitToShards(f, Size(f), n, 0).reads

SplitToShards ==
    /\ plan = NoResult
    /\ \E failAt \in 0..PlanReads(file, nth) :
          plan' = splitToShards(file, Size(file), nth, failAt)
    /\ UNCHANGED <<hvars, avars, file, nth, pvars, bvars, dvars>>

NextPlan == SplitToShards

SpecPlan == InitPlan /\ [][NextPlan]_vars

\* the planner on the files that end with '\n'
InitPlanLF == InitPlan /\ ByteAt(file, Size(file) - 1) = NL

SpecPlanLF == InitPlanLF /\ [][NextPlan]_vars

Planned == plan # NoResult /\ plan.err = NoErr

\* C4: the plan tiles [0, file_size): first Start = 0, last End = size,
\* each End is the next Start, and 0 <= Start <= End <= size for each.
C4_PlanTiles ==
    Planned =>
        LET shs == plan.shs
            n   == Len(shs)
        IN  /\ n >= 1
            /\ shs[1].Start = 0
            /\ shs[n].End = Size(file)
            /\ \A i \in 1..(n - 1) : shs[i].End = shs[i + 1].Start
            /\ \A i \in 1..n : /\ 0 <= shs[i].Start
                               /\ shs[i].Start <= shs[i].End
                               /\ shs[i].End <= Size(file)

\* C4 witness: a plan of four shards, one of them cut inside a line
\* longer than the search buffer, has been returned.
C4_Witness ==
    /\ Planned
    /\ Len(plan.shs) = 4
    /\ \E i \in 2..4 : /\ plan.shs[i].Start < plan.shs[i].End
                       /\ ByteAt(file, plan.shs[i].Start - 1) # NL

\* C5: every shard after the first starts just past a '\n' or is empty,
\* and every shard but the last ends just past a '\n'.
C5_PlanAligned ==
    Planned =>
        LET shs == plan.shs
            n   == Len(shs)
        IN  /\ \A i \in 2..n :
                  \/ shs[i].Start = shs[i].End
                  \/ ByteAt(file, shs[i].Start - 1) = NL
            /\ \A i \in 1..(n - 1) :
                  /\ shs[i].End = shs[i + 1].Start
                  /\ shs[i].End > 0
                  /\ ByteAt(file, shs[i].End - 1) = NL

\* C18: when the worker count exceeds the file size, or file_size / n is
\* 0, the plan is the one shard [0, file_size).
C18_SmallFileOneShard ==
    (Planned /\ (nth > Size(file) \/ Size(file) \div nth = 0)) =>
        plan.shs = <<[Start |-> 0, End |-> Size(file)]>>

\* C18 witness: a file of three bytes was planned for four workers.
C18_Witness ==
    /\ Planned
    /\ Size(file) = 3 /\ nth = 4
    /\ Len(plan.shs) = 1

---------------------------------------------------------------------------
(* File specification: inputs *)

\* the text t as runs of one byte
Text(t) == [i \in 1..Len(t) |-> <<t[i], 1>>]

IPLine(a, b, c, d) ==
    Text(QuadText([v |-> <<a, b, c, d>>, w |-> <<1, 1, 1, 1>>]) \o <<NL>>)

CRLFLine == Text(<<Dg(2), DOT, Dg(2), DOT, Dg(2), DOT, Dg(2), CR, NL>>)

\* "1.1.1.1\n", "2.2.2.2\r\n"
ShortLines == { IPLine(1, 1, 1, 1), CRLFLine }

MaxScanLines == 2
MaxScanners  == 2

\* S1 of the specification
FileS1 ==
    IPLine(1, 1, 1, 1) \o CRLFLine
      \o Text(<<103, 97, 114, 98, 97, 103, 101, NL>>)
      \o IPLine(1, 1, 1, 1) \o IPLine(255, 255, 255, 255)

\* S3 of the specification: "1.2.3.4\r"
FileS3 == Text(<<Dg(1), DOT, Dg(2), DOT, Dg(3), DOT, Dg(4), CR>>)

\* two lines and an unterminated last line
FileTail == CRLFLine \o IPLine(1, 1, 1, 1) \o FileS3

\* three address lines, the first address once more on the last line
FileDup == IPLine(1, 1, 1, 1) \o CRLFLine \o IPLine(1, 1, 1, 1)

\* "10..1.1\n" between two addresses
FileEmptyComp ==
    IPLine(1, 1, 1, 1)
      \o Text(<<Dg(1), Dg(0), DOT, DOT, Dg(1), DOT, Dg(1), NL>>)
      \o CRLFLine

\* a first line of two search buffers of filler and "1.2.3.4\n", then a
\* line of filler and "1.1.1.1\n": 3 * 65536 bytes
FileLong ==
    <<<<A, 131072>>>> \o IPLine(1, 2, 3, 4)
      \o <<<<A, 65519>>, <<NL, 1>>>> \o IPLine(1, 1, 1, 1)

\* "1.1.1.1\n", then a line as long as the read buffer, then "2.2.2.2\r\n"
FileHuge ==
    IPLine(1, 1, 1, 1) \o <<<<A, 2097152>>, <<NL, 1>>>> \o CRLFLine

\* "1.1.1.1\n", then as many bytes as the read buffer holds and no '\n'
FileFrag == IPLine(1, 1, 1, 1) \o <<<<A, 2097152>>>>

\* every file of at most MaxScanLines address lines, and the special files
ScanFiles ==
    { Flatten(ls) : ls \in UNION { [1..k -> ShortLines] : k \in 0..MaxScanLines } }
    \cup { FileS1, FileS3, FileTail, FileDup, FileEmptyComp, FileLong, FileHuge,
           FileFrag }

\* the runs: every file with every worker count, and the file whose first
\* line spans two shards with the three workers that cut it there
ScanRuns == (ScanFiles \X (1..MaxScanners)) \cup { <<FileLong, 3>> }

---------------------------------------------------------------------------
(* Boundary-search specification: moveStartToNewline on one shard *)

\* the file of Test_moveStartToNewline, "AAA\nBBBBB\nCCC", the file of
\* Test_moveStartToNewline_OffBeyondEnd, "abc\n", and a line longer than
\* the search buffer followed by a short one
MoveFileTest == Text(<<A, A, A, NL, 66, 66, 66, 66, 66, NL, 67, 67, 67>>)
MoveFileAbc  == Text(<<LA, 98, 99, NL>>)
MoveFileLong == <<<<A, 70000>>, <<NL, 1>>, <<A, 10>>, <<NL, 1>>>>

\* the offsets that bound the shards of a file
MoveOffsets(f) ==
    IF f = MoveFileLong
    THEN {1, 4464, 65536, 65537, 69999, 70000, 70001, 70005, 70012}
    ELSE 1..Size(f)

MoveRuns ==
    UNION { { [f |-> f, s |-> [Start |-> p[1], End |-> p[2]]] :
                p \in { q \in MoveOffsets(f) \X MoveOffsets(f) : q[1] <= q[2] } } :
            f \in {MoveFileTest, MoveFileAbc, MoveFileLong} }

InitMove ==
    /\ InitBitset
    /\ InitDriver
    /\ app = NoApp
    /\ retry = <<>>
    /\ th = <<>>
    /\ sb = <<>> /\ parsed = NoResult
    /\ \E run \in MoveRuns : file = run.f /\ gen = [kind |-> "move", s |-> run.s]
    /\ nth = 1
    /\ plan = NoResult

\* moveStartToNewline(gen.s); its first ReadAt may fail
MoveStart ==
    /\ plan = NoResult
    /\ \E failAt \in 0..1 : plan' = moveStartToNewline(file, gen.s, 0, failAt)
    /\ UNCHANGED <<hvars, avars, file, nth, pvars, bvars, dvars>>

NextMove == MoveStart

SpecMove == InitMove /\ [][NextMove]_vars

\* C20: for a shard s with s.Start > 0 moveStartToNewline returns a shard
\* with End = s.End and Start <= End: Start is the offset just past the
\* first '\n' at or after s.Start when that offset is <= s.End, and
\* Start = End = s.End when no '\n' occurs in [s.Start, s.End).
C20_StartBoundedByEnd ==
    (plan # NoResult /\ plan.err = NoErr /\ gen.s.Start > 0) =>
        LET s   == gen.s
            idx == IndexNL(file, s.Start, s.End)
        IN  /\ plan.s.End = s.End
            /\ plan.s.Start <= plan.s.End
            /\ plan.s.Start = IF idx >= 0 THEN idx + 1 ELSE s.End

---------------------------------------------------------------------------
(* File specification: ProcessFile with its scanners *)

InitFile ==
    /\ InitBitset
    /\ InitDriver
    /\ app = NoApp
    /\ retry = <<>>
    /\ th = <<>>
    /\ sb = <<>> /\ gen = [kind |-> "none"] /\ parsed = NoResult
    /\ \E run \in ScanRuns : file = run[1] /\ nth = run[2]
    /\ plan = NoResult

NextFile ==
    \/ Launch /\ UNCHANGED <<hvars, avars, pvars, file, nth>>
    \/ Cancel /\ UNCHANGED <<hvars, avars, pvars, fvars>>
    \/ Wait /\ UNCHANGED <<hvars, avars, pvars, fvars>>
    \/ \E t \in DOMAIN th : ScanLine(t) /\ UNCHANGED <<hvars, avars, pvars, fvars>>
    \/ \E t \in DOMAIN th : GocLoad(t) /\ UNCHANGED <<hvars, avars, pvars, fvars, dvars>>
    \/ \E t \in DOMAIN th : GocCAS(t) /\ UNCHANGED <<hvars, avars, pvars, fvars, dvars>>
    \/ \E t \in DOMAIN th : GocReload(t) /\ UNCHANGED <<hvars, avars, pvars, fvars, dvars>>
    \/ \E t \in DOMAIN th : WordLoad(t) /\ UNCHANGED <<hvars, avars, pvars, fvars, dvars>>
    \/ \E t \in DOMAIN th : WordCAS(t) /\ UNCHANGED <<hvars, avars, pvars, fvars, dvars>>
    \/ \E t \in DOMAIN th : Deferred(t) /\ UNCHANGED <<hvars, avars, pvars, fvars>>
    \/ \E t \in DOMAIN th : Return(t) /\ UNCHANGED <<hvars, avars, pvars, fvars>>

SpecFile == InitFile /\ [][NextFile]_vars

---------------------------------------------------------------------------
(* File claims *)

Returned == pf.pc = "returned"

\* the lines of the file from offset from on: <<start, end>> with the
\* '\n' at end - 1; an unterminated tail is not a line
RECURSIVE LinesFrom(_, _)
LinesFrom(f, from) ==
    LET idx == IndexNL(f, from, Size(f))
    IN  IF idx < 0 THEN {} ELSE {<<from, idx + 1>>} \cup LinesFrom(f, idx + 1)

Lines(f) == LinesFrom(f, 0)

\* the content of a line: without its '\n' and the '\r' before it, if any
ContentEnd(f, l) ==
    IF l[2] - l[1] >= 2 /\ ByteAt(f, l[2] - 2) = CR THEN l[2] - 2 ELSE l[2] - 1

Content(f, l) == [i \in 1..(ContentEnd(f, l) - l[1]) |-> ByteAt(f, l[1] + i - 1)]

RECURSIVE Value(_)
Value(c) == IF Len(c) = 0 THEN 0
            ELSE Value(SubSeq(c, 1, Len(c) - 1)) * 10 + (c[Len(c)] - D0)

\* a strict dotted quad: 7..15 bytes, four non-empty runs of digits of
\* value 0..255 separated by three '.'
StrictQuad(t) == ~Malformed(t) /\ ~HasEmptyComponent(t)

QuadAddr(t) ==
    LET c == Components(t)
    IN  U32Of(Value(StripZeros(c[1])), Value(StripZeros(c[2])),
              Value(StripZeros(c[3])), Value(StripZeros(c[4])))

IsAddressLine(f, l) ==
    /\ ContentEnd(f, l) - l[1] <= MaxIPLen
    /\ StrictQuad(Content(f, l))

\* every byte of the file belongs to a newline-terminated address line
AddressFile(f) ==
    /\ Size(f) > 0 => ByteAt(f, Size(f) - 1) = NL
    /\ \A l \in Lines(f) : IsAddressLine(f, l)

\* the addresses of the lines of the file that are strict dotted quads
FileAddrs(f) == { QuadAddr(Content(f, l)) : l \in { m \in Lines(f) : IsAddressLine(f, m) } }

RECURSIVE SumTrues(_)
SumTrues(S) ==
    IF S = {} THEN 0
    ELSE LET x == CHOOSE y \in S : TRUE IN Trues(x) + SumTrues(S \ {x})

\* the number of SetIfNew calls that returned true
TotalTrues == SumTrues(DOMAIN rets)

\* C2: when ProcessFile returns nil on a file of newline-terminated
\* addresses, UniqueCount() is the number of distinct addresses of the
\* file, whatever the worker count.
C2_EndToEndUnique ==
    (Returned /\ pf.ret = NoErr /\ AddressFile(file)) =>
        unique = Cardinality(FileAddrs(file))

\* C2 witness: two scanners, each with lines of its own, have counted a
\* file of three address lines holding two distinct addresses.
C2_Witness ==
    /\ Returned /\ pf.ret = NoErr /\ AddressFile(file)
    /\ Cardinality(Lines(file)) = 3
    /\ DOMAIN th = 1..2
    /\ \A t \in DOMAIN th : th[t].s.Start < th[t].s.End
    /\ unique = 2

\* C3: whenever ProcessFile has returned, with nil, with a cancellation
\* error or with an I/O error, UniqueCount() is the number of SetIfNew
\* calls that returned true.
C3_CounterEqualsTrues ==
    Returned => unique = TotalTrues

\* C3 witness: ProcessFile has returned the error of one scanner while
\* another scanner had set and flushed a new address.
C3_Witness ==
    /\ Returned
    /\ pf.ret # NoErr
    /\ unique >= 1
    /\ \E t \in DOMAIN th : th[t].err = NoErr \/ th[t].err = "canceled"
    /\ \E t \in DOMAIN th : th[t].err = "EIO"

\* C9: a line that is not a strict dotted quad, whatever its content and
\* length, is ignored: no scanner and no ProcessFile call returns an error
\* because of it, and every address that was set is the address of a line
\* of the file that is a strict dotted quad.
C9_BadLinesIgnored ==
    /\ pf.ret # "ErrBufferFull"
    /\ \A t \in DOMAIN th : th[t].err # "ErrBufferFull"
    /\ \A x \in DOMAIN rets : x \in FileAddrs(file)

\* C10 as claimed: with the context cancelled before the call, ProcessFile
\* returns a cancellation error and counts nothing, for every file.
C10_Original ==
    (Returned /\ pf.pre) => (pf.ret = "canceled" /\ unique = 0)

\* C10 amended: with the context cancelled before the call no address is
\* set or counted, and ProcessFile returns nil for an empty file, the I/O
\* error of the planner when one of its reads fails, and a cancellation
\* error otherwise.
C10_PreCancelled ==
    (Returned /\ pf.pre) =>
        /\ unique = 0
        /\ rets = <<>>
        /\ pf.ret = IF Size(file) <= 0 THEN NoErr
                    ELSE IF plan = NoResult THEN "EIO"
                    ELSE "canceled"

\* C10 witness: two scanners were launched under a context already
\* cancelled, and ProcessFile returned the cancellation error.
C10_Witness ==
    /\ Returned /\ pf.pre
    /\ pf.ret = "canceled"
    /\ DOMAIN th = 1..2
    /\ Size(file) > 16

\* the end of the range of shard s that a scanner reads
Limit(f, s) == Min(s.End, Size(f))

\* the start of the final fragment of the range [from, to): the offset
\* just past its last '\n', or from when it holds none
RECURSIVE FragStart(_, _, _)
FragStart(f, from, to) ==
    LET idx == IndexNL(f, from, to)
    IN  IF idx < 0 THEN from ELSE FragStart(f, idx + 1, to)

\* the range of shard s ends with bytes that no '\n' terminates
HasFragment(f, s) == FragStart(f, s.Start, Limit(f, s)) < Limit(f, s)

\* scanner t has returned from a read of the final fragment of its range
ReachedFragment(t) ==
    /\ th[t].pc \in {"defer", "return", "done"}
    /\ th[t].err \notin {"canceled", "EIO"}
    /\ HasFragment(file, th[t].s)
    /\ th[t].r >= FragStart(file, th[t].s.Start, Limit(file, th[t].s))

\* the address that the parser returns for the view v, or NoResult
ViewAddr(f, v) ==
    LET ip == IPv4ByteToUint32(Slice(f, v[1], trimCRLF(f, v[1], v[2])))
    IN  IF ip.ok THEN ip.acc ELSE NoResult

\* the views handed to the parser so far, by all scanners
HandedBy(t) == { th[t].handed[i] : i \in 1..Len(th[t].handed) }
Handed == UNION { HandedBy(t) : t \in DOMAIN th }

\* C17: the final fragment of a shard range, not terminated by '\n', is
\* never handed to the parser and never counted, and processShard returns
\* nil on reaching it.
C17_FragmentDropped ==
    /\ \A v \in Handed : ByteAt(file, v[2] - 1) = NL
    /\ \A x \in DOMAIN rets : \E v \in Handed : ViewAddr(file, v) = x
    /\ \A t \in DOMAIN th : ReachedFragment(t) => th[t].err = NoErr

\* the views of the file handed to the parser by scanner t, with their
\* number of occurrences
TimesHanded(v) ==
    LET n[t \in 0..Len(th)] ==
            IF t = 0 THEN 0
            ELSE n[t - 1] + Cardinality({ i \in 1..Len(th[t].handed) :
                                            th[t].handed[i] = v })
    IN  n[Len(th)]

\* C19: after a successful ProcessFile every newline-terminated line of
\* the file has been handed to the parser exactly once, whole, and nothing
\* that is not a whole line of the file has been handed to it.
C19_EachLineOnce ==
    (Returned /\ pf.ret = NoErr /\ plan # NoResult) =>
        /\ \A l \in Lines(file) : TimesHanded(l) = 1
        /\ Handed \subseteq Lines(file)

\* the number of bits set in the bitmap
BitsSet == Cardinality(AllMembers)

\* the counter never exceeds the number of distinct addresses observed
C22_LowerBound == unique <= BitsSet

\* no step decreases the counter
C22_Monotonic == unique' >= unique

\* C22: in every state of a ProcessFile run, with any number of
\* concurrent scanners, the unique counter is at most the number of bits
\* set in the bitmap, and no step decreases it.
C22_CounterIsLowerBound ==
    /\ []C22_LowerBound
    /\ [][C22_Monotonic]_vars

\* C22 witness: of two scanners one has flushed its count and the other
\* has set a bit that it has not yet flushed: the counter is 1, two bits
\* are set.
C22_Witness ==
    /\ DOMAIN th = 1..2
    /\ unique = 1
    /\ BitsSet = 2
    /\ \E t \in DOMAIN th : th[t].pc = "done" /\ th[t].localUniq = 1
    /\ \E t \in DOMAIN th : th[t].pc = "loop" /\ th[t].localUniq = 1

\* at the return every scanner that was launched has returned
C23_AllReturned ==
    Returned => \A t \in DOMAIN th : th[t].pc = "done"

\* after the return no scanner takes a step: the directory, the leaves,
\* the counter and the progress count stay as they are
C23_Quiet ==
    Returned => /\ th' = th
                /\ shards' = shards /\ heap' = heap /\ rets' = rets
                /\ AllMembers' = AllMembers
                /\ unique' = unique
                /\ progress' = progress

\* C23: when ProcessFile returns, with nil or with an error, every scanner
\* it launched has returned: no SetIfNew, AddUnique or progress Add step
\* follows the return, and the bitmap and UniqueCount() no longer change.
C23_NothingAfterReturn ==
    /\ []C23_AllReturned
    /\ [][C23_Quiet]_vars

\* C23 witness: ProcessFile has returned the I/O error of one of two
\* scanners after the other one set a bit, flushed its count and its
\* progress, and returned.
C23_Witness ==
    /\ Returned /\ pf.ret = "EIO"
    /\ DOMAIN th = 1..2
    /\ \E t \in DOMAIN th : th[t].err = NoErr /\ th[t].localUniq = 1
    /\ BitsSet = 1 /\ unique = 1 /\ progress > 0

---------------------------------------------------------------------------
(* File specification under the scheduler's fairness *)

\* the goroutine ids a run can have: FileLong runs with three scanners
ScannerIds == 1..(IF MaxScanners > 3 THEN MaxScanners ELSE 3)

\* a step of scanner t that is not a read of the file: its per-line check
\* under the tripped signal, an atomic step of SetIfNew, its deferred
\* function, its return
ScannerStep(t) ==
    /\ t \in DOMAIN th
    /\ \/ CtxErr # NoErr /\ ScanLine(t) /\ UNCHANGED <<hvars, avars, pvars, fvars>>
       \/ SetIfNewStep(t) /\ UNCHANGED <<hvars, avars, pvars, fvars, dvars>>
       \/ Deferred(t) /\ UNCHANGED <<hvars, avars, pvars, fvars>>
       \/ Return(t) /\ UNCHANGED <<hvars, avars, pvars, fvars>>

\* g.Wait() of ProcessFile
DriverStep == Wait /\ UNCHANGED <<hvars, avars, pvars, fvars>>

\* the Go scheduler runs every runnable goroutine again and again.  Only
\* the steps that follow a tripped signal are required to happen; reads
\* of the file and the cancellation of the caller's context are left to
\* the environment.
SpecFileFair ==
    /\ InitFile
    /\ [][NextFile]_vars
    /\ WF_vars(DriverStep)
    /\ \A t \in ScannerIds : WF_vars(ScannerStep(t))

\* at the return of ProcessFile every scanner is done; the return value
\* is nil exactly when no scanner returned an error, and otherwise the
\* error of a scanner; a cancellation error is returned only for a
\* cancellation of the caller's context
C11_AtReturn ==
    (Returned /\ plan # NoResult) =>
        /\ \A t \in DOMAIN th : th[t].pc = "done"
        /\ (pf.ret = NoErr) <=> (\A t \in DOMAIN th : th[t].err = NoErr)
        /\ pf.ret # NoErr => \E t \in DOMAIN th : th[t].err = pf.ret
        /\ pf.ret = "canceled" => ctxDone

\* the steps: the first scanner that returns an error trips the signal
\* and has its error kept, a later return changes nothing; a scanner that
\* passes its per-line check under the tripped signal returns the
\* cancellation error without reading; Wait returns the error kept
C11_Steps ==
    /\ \A t \in DOMAIN th :
          (th[t].pc = "return" /\ th'[t].pc = "done") =>
              group' = IF th[t].err # NoErr /\ group.err = NoErr
                       THEN [done |-> TRUE, err |-> th[t].err]
                       ELSE group
    /\ group.err # NoErr => (group'.err = group.err /\ group'.done)
    /\ \A t \in DOMAIN th :
          (group.done /\ th[t].pc = "loop" /\ th'[t] # th[t]) =>
              /\ th'[t].pc = "defer"
              /\ th'[t].err = "canceled"
              /\ th'[t].r = th[t].r
    /\ (pf.pc = "wait" /\ pf'.pc = "returned") =>
          /\ pf'.ret = group.err
          /\ \A t \in DOMAIN th : th[t].pc = "done"

\* C11: when a scanner returns an error the signal is tripped, every
\* other scanner returns at its next per-line check, and ProcessFile
\* waits for all of them and returns the first error; later errors and
\* the cancellation errors of the other scanners are discarded.
C11_FailFast ==
    /\ []C11_AtReturn
    /\ [][C11_Steps]_vars
    /\ (group.err # NoErr ~> (Returned /\ pf.ret = group.err))

\* C11 witness: ProcessFile returned the I/O error of one scanner while
\* another scanner returned the cancellation error, with the caller's
\* context never cancelled.
C11_Witness ==
    /\ Returned /\ pf.ret = "EIO" /\ ~ctxDone
    /\ \E t \in DOMAIN th : th[t].err = "canceled"

---------------------------------------------------------------------------
(* Cancellation specification: the check and the read as two steps *)

\* one address, three address lines, two lines and an unterminated tail,
\* an unterminated line alone
CancelFiles == { IPLine(1, 1, 1, 1), FileDup, FileTail, FileS3 }

InitCancel ==
    /\ InitBitset
    /\ InitDriver
    /\ app = NoApp
    /\ retry = <<>>
    /\ th = <<>>
    /\ sb = <<>> /\ gen = [kind |-> "none"] /\ parsed = NoResult
    /\ file \in CancelFiles
    /\ nth \in 1..MaxScanners
    /\ plan = NoResult

NextCancel ==
    \/ Launch /\ UNCHANGED <<hvars, avars, pvars, file, nth>>
    \/ Cancel /\ UNCHANGED <<hvars, avars, pvars, fvars>>
    \/ Wait /\ UNCHANGED <<hvars, avars, pvars, fvars>>
    \/ \E t \in DOMAIN th : CheckCtx(t) /\ UNCHANGED <<hvars, avars, pvars, fvars>>
    \/ \E t \in DOMAIN th : ReadLine(t) /\ UNCHANGED <<hvars, avars, pvars, fvars>>
    \/ \E t \in DOMAIN th : GocLoad(t) /\ UNCHANGED <<hvars, avars, pvars, fvars, dvars>>
    \/ \E t \in DOMAIN th : GocCAS(t) /\ UNCHANGED <<hvars, avars, pvars, fvars, dvars>>
    \/ \E t \in DOMAIN th : GocReload(t) /\ UNCHANGED <<hvars, avars, pvars, fvars, dvars>>
    \/ \E t \in DOMAIN th : WordLoad(t) /\ UNCHANGED <<hvars, avars, pvars, fvars, dvars>>
    \/ \E t \in DOMAIN th : WordCAS(t) /\ UNCHANGED <<hvars, avars, pvars, fvars, dvars>>
    \/ \E t \in DOMAIN th : Deferred(t) /\ UNCHANGED <<hvars, avars, pvars, fvars>>
    \/ \E t \in DOMAIN th : Return(t) /\ UNCHANGED <<hvars, avars, pvars, fvars>>

SpecCancel == InitCancel /\ [][NextCancel]_vars

\* a step of scanner t that is not a read of the file: the check, an
\* atomic step of SetIfNew, the deferred function, the return
CancelStep(t) ==
    /\ t \in DOMAIN th
    /\ \/ CheckCtx(t) /\ UNCHANGED <<hvars, avars, pvars, fvars>>
       \/ SetIfNewStep(t) /\ UNCHANGED <<hvars, avars, pvars, fvars, dvars>>
       \/ Deferred(t) /\ UNCHANGED <<hvars, avars, pvars, fvars>>
       \/ Return(t) /\ UNCHANGED <<hvars, avars, pvars, fvars>>

\* the Go scheduler runs every runnable goroutine again and again; how
\* long a ReadSlice in progress takes is left to the environment
SpecCancelFair ==
    /\ InitCancel
    /\ [][NextCancel]_vars
    /\ WF_vars(DriverStep)
    /\ \A t \in ScannerIds : WF_vars(CancelStep(t))

\* scanner t has returned from processShard
Finished(t) == th[t].pc \in {"defer", "return", "done"}

\* no scanner is between its check and the return of its ReadSlice
NoneReading == \A t \in DOMAIN th : th[t].pc # "read"

\* no scanner calls ReadSlice twice under the tripped signal, and it hands
\* at most one line to the parser and the set after the signal
C21_OneMore ==
    \A t \in DOMAIN th : th[t].late <= 1

\* a check under the tripped signal returns the cancellation error
\* without reading or handing anything; a check is all that can return
\* it; a read follows a check that passed
C21_Steps ==
    \A t \in DOMAIN th :
        /\ (th[t].pc = "loop" /\ th'[t] # th[t]) =>
               IF CtxErr # NoErr
               THEN th'[t] = [th[t] EXCEPT !.pc = "defer", !.err = "canceled"]
               ELSE th'[t] = [th[t] EXCEPT !.pc = "read"]
        /\ (th[t].pc = "read" /\ th'[t].pc = "defer") => th'[t].err # "canceled"
        /\ th'[t].pc = "defer" => th[t].pc \in {"loop", "read", "defer"}
        /\ Len(th'[t].handed) > Len(th[t].handed) => th[t].pc = "read"

\* C21 as claimed: every scanner that was running its turn when the
\* signal was tripped returns the cancellation error.
C21_Original ==
    \A t \in DOMAIN th :
        (th[t].late = 1 /\ Finished(t)) => th[t].err = "canceled"

\* C21 amended: the signal is checked before every read.  After it is
\* tripped a scanner makes at most one more read, the one whose check had
\* passed, and hands at most that one line on; a scanner that comes to its
\* check returns the cancellation error without reading, a scanner whose
\* last read ends its loop returns nil or the error of the read; and once
\* no read is in progress every scanner returns, so that ProcessFile does.
C21_CheckedBeforeEachRead ==
    /\ []C21_OneMore
    /\ [][C21_Steps]_vars
    /\ ((CtxErr # NoErr /\ pf.pc = "wait" /\ NoneReading) ~> Returned)

\* C21 witness: under the tripped signal one scanner has handed on the
\* line it was reading, set its address and returned the cancellation
\* error at its next check, with lines of its range left unread.
C21_Witness ==
    \E t \in DOMAIN th :
        /\ th[t].pc = "done"
        /\ th[t].late = 1
        /\ th[t].err = "canceled"
        /\ th[t].localUniq = 1
        /\ th[t].r < Limit(file, th[t].s)

---------------------------------------------------------------------------
(* internal/app.go: App.Run *)

\* the context of the errgroup of Run: the signal context, cancelled as
\* well when the goroutine of line 84 has returned an error
AppCtxDone == ctxDone \/ app.err # NoErr

\* a panic in a goroutine ends the process
Crashed == pf.pc = "panic"

\* lines 85-88: Stat of the open file
AppStat ==
    /\ app.go = "stat"
    /\ \E ok \in BOOLEAN :
          app' = IF ok THEN [app EXCEPT !.go = "process"]
                 ELSE [app EXCEPT !.go = "done", !.err = "ESTAT"]
    /\ UNCHANGED <<hvars, pvars, bvars, fvars, dvars>>

\* line 89: the call of ProcessFile with the group's context
AppLaunch ==
    /\ app.go = "process"
    /\ Launch
    /\ UNCHANGED <<hvars, avars, pvars, file, nth>>

\* lines 89-92: ProcessFile has returned; an error is wrapped and
\* returned, otherwise the goroutine goes on to send on a.done
AppProcessed ==
    /\ app.go = "process"
    /\ pf.pc = "returned"
    /\ app' = IF pf.ret # NoErr
              THEN [app EXCEPT !.go = "done", !.err = pf.ret]
              ELSE [app EXCEPT !.go = "send"]
    /\ UNCHANGED <<hvars, pvars, bvars, fvars, dvars>>

\* lines 92-94 and 99-100: a.done is unbuffered, so that the send of the
\* goroutine and the receive of the select happen together; Run prints the
\* count and the goroutine returns nil
AppSelectDone ==
    /\ app.main = "select"
    /\ app.go = "send"
    /\ app' = [app EXCEPT !.main = "wait", !.go = "done",
                          !.printed = @ + 1, !.shown = unique]
    /\ UNCHANGED <<hvars, pvars, bvars, fvars, dvars>>

\* a plausible slip: the count is printed on cancellation as well
MutAppSelectCtx ==
    /\ app.main = "select"
    /\ AppCtxDone
    /\ app' = [app EXCEPT !.main = "wait", !.printed = @ + 1, !.shown = unique]
    /\ UNCHANGED <<hvars, pvars, bvars, fvars, dvars>>

\* line 101: the select takes the case <-ctx.Done()
AppSelectCtx ==
    /\ app.main = "select"
    /\ AppCtxDone
    /\ app' = [app EXCEPT !.main = "wait"]
    /\ UNCHANGED <<hvars, pvars, bvars, fvars, dvars>>

\* lines 104-111: g.Wait() returns the goroutine's error once it is done
AppWait ==
    /\ app.main = "wait"
    /\ app.go = "done"
    /\ app' = [app EXCEPT !.main = "returned", !.ret = app.err]
    /\ UNCHANGED <<hvars, pvars, bvars, fvars, dvars>>

\* line 74: SIGINT, SIGTERM or SIGUSR1 arrives while Run is running
Signal ==
    /\ ~ctxDone
    /\ app.main # "returned"
    /\ ~Crashed
    /\ ctxDone' = TRUE
    /\ UNCHANGED <<hvars, avars, pvars, bvars, fvars, group, pf, progress>>

---------------------------------------------------------------------------
(* Application specification: App.Run on a file, with signals *)

\* the files given with -f: empty, one byte, one address, three addresses
AppFiles == { <<>>, Text(<<NL>>), IPLine(1, 1, 1, 1), FileDup }

\* the values given with -th: NewApp passes the flag to New as it is
MaxBelowOne == 3      \* how many values below 1: 0, -1, -2
AppWorkers == (1 - MaxBelowOne)..MaxScanners

InitApp ==
    /\ InitBitset
    /\ InitDriver
    /\ th = <<>>
    /\ sb = <<>> /\ gen = [kind |-> "none"] /\ parsed = NoResult
    /\ file \in AppFiles
    /\ nth \in AppWorkers
    /\ plan = NoResult
    /\ app = [main |-> "select", go |-> "stat", err |-> NoErr, ret |-> NoErr,
              printed |-> 0, shown |-> 0]
    /\ retry = <<>>

NextApp ==
    \/ AppStat
    \/ AppLaunch
    \/ AppProcessed
    \/ AppSelectDone
    \/ AppSelectCtx
    \/ AppWait
    \/ Signal
    \/ Wait /\ UNCHANGED <<hvars, avars, pvars, fvars>>
    \/ \E t \in DOMAIN th : ScanLine(t) /\ UNCHANGED <<hvars, avars, pvars, fvars>>
    \/ \E t \in DOMAIN th : GocLoad(t) /\ UNCHANGED <<hvars, avars, pvars, fvars, dvars>>
    \/ \E t \in DOMAIN th : GocCAS(t) /\ UNCHANGED <<hvars, avars, pvars, fvars, dvars>>
    \/ \E t \in DOMAIN th : GocReload(t) /\ UNCHANGED <<hvars, avars, pvars, fvars, dvars>>
    \/ \E t \in DOMAIN th : WordLoad(t) /\ UNCHANGED <<hvars, avars, pvars, fvars, dvars>>
    \/ \E t \in DOMAIN th : WordCAS(t) /\ UNCHANGED <<hvars, avars, pvars, fvars, dvars>>
    \/ \E t \in DOMAIN th : Deferred(t) /\ UNCHANGED <<hvars, avars, pvars, fvars>>
    \/ \E t \in DOMAIN th : Return(t) /\ UNCHANGED <<hvars, avars, pvars, fvars>>

SpecApp == InitApp /\ [][NextApp]_vars

\* a step of one of the two goroutines of Run
AppStep ==
    \/ AppStat
    \/ AppLaunch
    \/ AppProcessed
    \/ AppSelectDone
    \/ AppSelectCtx
    \/ AppWait

\* the Go scheduler runs every runnable goroutine again and again; the
\* arrival of a signal and the reads of the file are left to the
\* environment
SpecAppFair ==
    /\ InitApp
    /\ [][NextApp]_vars
    /\ WF_vars(AppStep)
    /\ WF_vars(DriverStep)
    /\ \A t \in ScannerIds : WF_vars(ScannerStep(t))

AppReturned == app.main = "returned"

\* C12: once a signal has tripped the context of Run, Run eventually
\* returns, and it returns a non-nil error.  Stated for the worker counts
\* >= 1, so that the panic of the planner plays no part.
C12_SignalStopsRun ==
    (ctxDone /\ nth >= 1) ~> (AppReturned /\ app.ret # NoErr)

\* splitToShards has been called
PlannerCalled == Size(file) > 0 /\ pf.pc \in {"wait", "returned", "panic"}

\* C13: a worker count below 1 never reaches the core: splitToShards is
\* only called with n >= 1 and never panics in its division or its make.
C13_WorkersAtLeastOne ==
    /\ PlannerCalled => nth >= 1
    /\ ~Crashed

\* C14: Run prints the count line if and only if it returns nil: at most
\* once, only after ProcessFile has returned nil, with the count of that
\* moment; a Run that has returned has printed exactly when it returned nil.
C14_PrintedIffNil ==
    /\ app.printed <= 1
    /\ app.printed = 1 =>
          /\ pf.pc = "returned" /\ pf.ret = NoErr
          /\ app.shown = unique
          /\ app.err = NoErr
    /\ AppReturned => ((app.ret = NoErr) <=> (app.printed = 1))

\* C14 witness: Run has returned nil after two scanners counted the two
\* addresses of a file, and the line was printed once.
C14_Witness ==
    /\ AppReturned /\ app.ret = NoErr
    /\ app.printed = 1 /\ app.shown = 2
    /\ DOMAIN th = 1..2

====
